---- MODULE Spec2Model ----
(***************************************************************************)
(* Model of the Revrag voice agent (src/agent.py).                         *)
(*                                                                         *)
(* EchoAgent's three coroutines (on_enter, on_user_turn_completed,         *)
(* _silence_watcher) are translated statement by statement.  The           *)
(* AgentSession they call into is a library; it is modelled the way the    *)
(* module docstring of agent.py (HOW NO-OVERLAP WORKS, lines 11-22)        *)
(* describes it: a VAD that reports speech START and speech END, a START   *)
(* that cancels the playback in progress, an END that leads to a           *)
(* transcript and to on_user_turn_completed, and a TTS that turns each     *)
(* session.say into audio frames published to the room.                    *)
(*                                                                         *)
(* Time is counted in seconds and observed at the instants at which the    *)
(* watcher's sleep can end, POLL_SECONDS apart; what happens between two   *)
(* such instants happens, in any order, at the earlier one.  Text is a     *)
(* sequence of tokens: the characters of a transcript are one token each,  *)
(* a literal of the program is one token.                                  *)
(***************************************************************************)
EXTENDS Integers, Sequences, FiniteSets, TLC

VARIABLES
    now,                \* time.time()
    last_speech_time,   \* EchoAgent._last_speech_time
    reminder_played,    \* local of _silence_watcher
    watcher_pc,         \* position of the _silence_watcher task
    wake_at,            \* when the watcher's asyncio.sleep(5) returns
    on_enter_pc,        \* position of on_enter
    user_speaking,      \* VAD: between speech START and speech END
    pending,            \* speech segments sent to STT, transcript not yet delivered
    speech_queue,       \* session.say requests; the head is the playback in progress
    horizon,            \* the instant at which the observation stops
    vocabulary,         \* the messages the STT may deliver in this run
    silence_start,      \* history: when the user last stopped speaking
    fired_in_interval,  \* history: reminders requested since silence_start
    ever_fired,         \* history: some reminder was requested and the user spoke after it
    fired_since_update, \* history: a reminder was requested since the clock was last written
    faults              \* history: exceptions that left a coroutine of the agent

vars == <<now, last_speech_time, reminder_played, watcher_pc, wake_at,
          on_enter_pc, user_speaking, pending, speech_queue, horizon,
          vocabulary, silence_start, fired_in_interval, ever_fired, fired_since_update, faults>>

(***************************************************************************)
(* Program constants                                                       *)
(***************************************************************************)
SILENCE_TIMEOUT_SECONDS == 20
POLL_SECONDS == 5
REMINDER_TEXT == <<"I'm still here. Feel free to say something whenever you're ready.">>
GREETING_TEXT == <<"Hello! I'm your voice assistant. Say something and I'll echo it back to you.">>
REPROMPT_TEXT == <<"Sorry, I didn't catch that. Could you say that again?">>
YOU_SAID == <<"You said: ">>

(***************************************************************************)
(* Bounds of the model                                                     *)
(***************************************************************************)
MaxTime == 45       \* seconds observed
MaxFrames == 1      \* audio frames per utterance
MaxTurns == 1       \* user turns in flight: transcripts awaited, responses not yet spoken
MaxLen == 3         \* characters in a transcript
MaxFaults == 1      \* TTS failures per run

(***************************************************************************)
(* Text                                                                    *)
(***************************************************************************)
Whitespace == {" ", "\t"}
Chars == {" ", "a"}

SeqsUpTo(S, n) == UNION {[1..k -> S] : k \in 0..n}

\* new_message: text_content is None, or a string
Message(chars) == [is_none |-> FALSE, text_content |-> chars]
NoneMessage == [is_none |-> TRUE, text_content |-> <<>>]
AllMessages == {NoneMessage} \cup {Message(c) : c \in SeqsUpTo(Chars, MaxLen)}
FewMessages == {NoneMessage, Message(<<" ", "a">>)}

RECURSIVE lstrip(_)
lstrip(s) == IF s # <<>> /\ Head(s) \in Whitespace THEN lstrip(Tail(s)) ELSE s

RECURSIVE rstrip(_)
rstrip(s) ==
    IF s # <<>> /\ s[Len(s)] \in Whitespace
    THEN rstrip(SubSeq(s, 1, Len(s) - 1))
    ELSE s

\* str.strip() that forgets the trailing whitespace
strip_leading_only(s) == lstrip(s)

strip(s) == rstrip(lstrip(s))

\* line 76: new_message.text_content.strip() if new_message.text_content else ""
user_text_of(m) ==
    IF ~m.is_none /\ m.text_content # <<>> THEN strip(m.text_content) ELSE <<>>

\* lines 81-84
response_of(user_text) ==
    IF user_text # <<>> THEN YOU_SAID \o user_text ELSE REPROMPT_TEXT

(***************************************************************************)
(* AgentSession: the speech queue and its playback                         *)
(***************************************************************************)
ErrorKinds == {"SynthesisError", "ProviderError"}

\* reply_to is history: the message a response answers
Utterance(kind, text, allow_interruptions, reply_to) ==
    [kind |-> kind, text |-> text, allow_interruptions |-> allow_interruptions,
     status |-> "active", frames_left |-> MaxFrames, error |-> "none",
     reply_to |-> reply_to]

\* session.say(text, allow_interruptions=...)
say(queue, kind, text, allow_interruptions, reply_to) ==
    Append(queue, Utterance(kind, text, allow_interruptions, reply_to))

\* lines 65-68
say_greeting(queue) == say(queue, "greeting", GREETING_TEXT, TRUE, NoneMessage)

\* line 87
say_response(queue, response, new_message) ==
    say(queue, "response", response, TRUE, new_message)

\* the reminder issued with allow_interruptions=False
say_reminder_uninterruptible(queue) ==
    say(queue, "reminder", REMINDER_TEXT, FALSE, NoneMessage)

\* line 103
say_reminder(queue) == say(queue, "reminder", REMINDER_TEXT, TRUE, NoneMessage)

Playing == speech_queue # <<>> /\ Head(speech_queue).status = "active"
Settled == speech_queue # <<>> /\ Head(speech_queue).status # "active"

WithHead(queue, u) == <<u>> \o Tail(queue)

\* a speech START cancels the playback in progress
cancel_playback(queue) ==
    IF queue # <<>> /\ Head(queue).status = "active"
                   /\ Head(queue).allow_interruptions
    THEN WithHead(queue, [Head(queue) EXCEPT !.status = "cancelled"])
    ELSE queue

\* the session's state in the vocabulary of the design
SessionState ==
    IF user_speaking THEN "LISTENING"
    ELSE IF speech_queue # <<>> THEN "SPEAKING"
    ELSE IF pending # <<>> THEN "THINKING"
    ELSE "IDLE"

CountKind(queue, kind) == Cardinality({i \in 1..Len(queue) : queue[i].kind = kind})

(***************************************************************************)
(* Initial state: EchoAgent() has been constructed (line 130); on_enter is  *)
(* the first thing session.start does with it.                             *)
(***************************************************************************)
InitWith(h, v) ==
    /\ now = 0
    /\ last_speech_time = 0
    /\ reminder_played = FALSE
    /\ watcher_pc = "not_started"
    /\ wake_at = 0
    /\ on_enter_pc = "start"
    /\ user_speaking = FALSE
    /\ pending = <<>>
    /\ speech_queue = <<>>
    /\ horizon = h
    /\ vocabulary = v
    /\ silence_start = 0
    /\ fired_in_interval = 0
    /\ ever_fired = FALSE
    /\ fired_since_update = FALSE
    /\ faults = <<>>

Init == InitWith(MaxTime, FewMessages)

(***************************************************************************)
(* EchoAgent.on_enter, up to its await                                     *)
(***************************************************************************)
\* on_enter with line 69 moved before the await of line 65
on_enter_watcher_first ==
    /\ on_enter_pc = "start"
    /\ on_enter_pc' = "awaiting"
    /\ speech_queue' = say_greeting(speech_queue)
    /\ watcher_pc' = "sleeping"
    /\ wake_at' = now + POLL_SECONDS
    /\ UNCHANGED <<now, last_speech_time, reminder_played,
                   user_speaking, pending, horizon, vocabulary, silence_start, fired_in_interval, ever_fired, fired_since_update,
                   faults>>

on_enter ==
    /\ on_enter_pc = "start"
    /\ on_enter_pc' = "awaiting"
    /\ speech_queue' = say_greeting(speech_queue)
    /\ UNCHANGED <<now, last_speech_time, reminder_played, watcher_pc, wake_at,
                   user_speaking, pending, horizon, vocabulary, silence_start, fired_in_interval, ever_fired, fired_since_update,
                   faults>>

(***************************************************************************)
(* VAD edges, delivered once session.start has entered the agent           *)
(***************************************************************************)
SpeechStarted ==
    /\ on_enter_pc # "start"
    /\ ~user_speaking
    /\ user_speaking' = TRUE
    /\ speech_queue' = cancel_playback(speech_queue)
    /\ pending' = [i \in 1..Len(pending) |-> TRUE]
    /\ ever_fired' = (ever_fired \/ fired_in_interval > 0)
    /\ UNCHANGED <<now, last_speech_time, reminder_played, watcher_pc, wake_at,
                   on_enter_pc, horizon, vocabulary,
                   silence_start, fired_in_interval, fired_since_update, faults>>

SpeechEnded ==
    /\ user_speaking
    /\ Len(pending) + CountKind(speech_queue, "response") < MaxTurns
    /\ user_speaking' = FALSE
    /\ pending' = Append(pending, FALSE)
    /\ silence_start' = now
    /\ fired_in_interval' = 0
    /\ UNCHANGED <<now, last_speech_time, reminder_played, watcher_pc, wake_at,
                   on_enter_pc, speech_queue, horizon, vocabulary, ever_fired, fired_since_update, faults>>

(***************************************************************************)
(* EchoAgent.on_user_turn_completed, up to its await                       *)
(***************************************************************************)
\* on_user_turn_completed without line 87
on_user_turn_completed_silent(new_message) ==
    /\ pending # <<>>
    /\ pending' = Tail(pending)
    /\ last_speech_time' = now
    /\ fired_since_update' = FALSE
    /\ UNCHANGED <<now, reminder_played, watcher_pc, wake_at, on_enter_pc,
                   user_speaking, speech_queue, horizon, vocabulary,
                   silence_start, fired_in_interval, ever_fired, faults>>

\* on_user_turn_completed rearming the reminder itself
on_user_turn_completed_rearming(new_message) ==
    /\ pending # <<>>
    /\ pending' = Tail(pending)
    /\ last_speech_time' = now
    /\ reminder_played' = FALSE
    /\ speech_queue' = say_response(speech_queue,
                           response_of(user_text_of(new_message)), new_message)
    /\ fired_since_update' = FALSE
    /\ UNCHANGED <<now, watcher_pc, wake_at, on_enter_pc,
                   user_speaking, horizon, vocabulary,
                   silence_start, fired_in_interval, ever_fired, faults>>

\* on_user_turn_completed with line 77 moved under "if user_text"
on_user_turn_completed_stamping_text(new_message) ==
    /\ pending # <<>>
    /\ pending' = Tail(pending)
    /\ last_speech_time' = IF user_text_of(new_message) # <<>>
                           THEN now ELSE last_speech_time
    /\ speech_queue' = say_response(speech_queue,
                           response_of(user_text_of(new_message)), new_message)
    /\ fired_since_update' = FALSE
    /\ UNCHANGED <<now, reminder_played, watcher_pc, wake_at, on_enter_pc,
                   user_speaking, horizon, vocabulary,
                   silence_start, fired_in_interval, ever_fired, faults>>

on_user_turn_completed(new_message) ==
    /\ pending # <<>>
    /\ pending' = Tail(pending)
    /\ last_speech_time' = now
    /\ speech_queue' = say_response(speech_queue,
                           response_of(user_text_of(new_message)), new_message)
    /\ fired_since_update' = FALSE
    /\ UNCHANGED <<now, reminder_played, watcher_pc, wake_at, on_enter_pc,
                   user_speaking, horizon, vocabulary,
                   silence_start, fired_in_interval, ever_fired, faults>>

TranscriptReady == \E m \in vocabulary : on_user_turn_completed(m)

(***************************************************************************)
(* TTS playback of the head of the speech queue                            *)
(***************************************************************************)
EmitFrame ==
    /\ Playing
    /\ Head(speech_queue).frames_left > 0
    /\ speech_queue' = WithHead(speech_queue,
           [Head(speech_queue) EXCEPT !.frames_left = @ - 1])
    /\ UNCHANGED <<now, last_speech_time, reminder_played, watcher_pc, wake_at,
                   on_enter_pc, user_speaking, pending, horizon, vocabulary,
                   silence_start, fired_in_interval, ever_fired, fired_since_update,
                   faults>>

PlaybackCompleted ==
    /\ Playing
    /\ Head(speech_queue).frames_left = 0
    /\ speech_queue' = WithHead(speech_queue,
           [Head(speech_queue) EXCEPT !.status = "completed"])
    /\ UNCHANGED <<now, last_speech_time, reminder_played, watcher_pc, wake_at,
                   on_enter_pc, user_speaking, pending, horizon, vocabulary, silence_start, fired_in_interval,
                   ever_fired, fired_since_update, faults>>

\* the TTS engine fails: the await of session.say raises
PlaybackFails ==
    /\ Playing
    /\ Len(faults) < MaxFaults
    /\ \E e \in ErrorKinds :
          speech_queue' = WithHead(speech_queue,
              [Head(speech_queue) EXCEPT !.status = "failed", !.error = e])
    /\ UNCHANGED <<now, last_speech_time, reminder_played, watcher_pc, wake_at,
                   on_enter_pc, user_speaking, pending, horizon, vocabulary, silence_start, fired_in_interval,
                   ever_fired, fired_since_update, faults>>

Fault(task, u, surfaced) == [task |-> task, error |-> u.error, surfaced |-> surfaced]

(***************************************************************************)
(* The awaits of session.say return (or raise)                             *)
(***************************************************************************)
\* on_enter after line 65: line 69 starts the watcher, which runs to its sleep
on_enter_resume ==
    /\ Settled
    /\ Head(speech_queue).kind = "greeting"
    /\ speech_queue' = Tail(speech_queue)
    /\ IF Head(speech_queue).status = "failed"
       THEN /\ on_enter_pc' = "raised"
            /\ faults' = Append(faults, Fault("on_enter", Head(speech_queue), TRUE))
            /\ UNCHANGED <<watcher_pc, reminder_played, wake_at>>
       ELSE /\ on_enter_pc' = "done"
            /\ watcher_pc' = "sleeping"
            /\ reminder_played' = FALSE
            /\ wake_at' = now + POLL_SECONDS
            /\ UNCHANGED faults
    /\ UNCHANGED <<now, last_speech_time, user_speaking, pending, horizon,
                   vocabulary, silence_start,
                   fired_in_interval, ever_fired, fired_since_update>>

\* on_user_turn_completed after line 87: nothing follows the await
on_user_turn_completed_resume ==
    /\ Settled
    /\ Head(speech_queue).kind = "response"
    /\ speech_queue' = Tail(speech_queue)
    /\ faults' = IF Head(speech_queue).status = "failed"
                 THEN Append(faults, Fault("on_user_turn_completed",
                                           Head(speech_queue), TRUE))
                 ELSE faults
    /\ UNCHANGED <<now, last_speech_time, reminder_played, watcher_pc, wake_at,
                   on_enter_pc, user_speaking, pending, horizon, vocabulary, silence_start, fired_in_interval,
                   ever_fired, fired_since_update>>

\* _silence_watcher after line 103: line 104, then back to the sleep of line 98
silence_watcher_resume ==
    /\ Settled
    /\ Head(speech_queue).kind = "reminder"
    /\ speech_queue' = Tail(speech_queue)
    /\ IF Head(speech_queue).status = "failed"
       THEN /\ watcher_pc' = "dead"
            /\ faults' = Append(faults, Fault("_silence_watcher",
                                              Head(speech_queue), FALSE))
            /\ UNCHANGED <<reminder_played, wake_at>>
       ELSE /\ watcher_pc' = "sleeping"
            /\ reminder_played' = TRUE
            /\ wake_at' = now + POLL_SECONDS
            /\ UNCHANGED faults
    /\ UNCHANGED <<now, last_speech_time, on_enter_pc, user_speaking, pending,
                   horizon, vocabulary, silence_start,
                   fired_in_interval, ever_fired, fired_since_update>>

(***************************************************************************)
(* EchoAgent._silence_watcher: one pass of the loop, lines 98-106          *)
(***************************************************************************)
elapsed == now - last_speech_time

\* one pass of the loop in which on_user_turn_completed runs between the
\* read of the clock (line 99) and the request of the reminder (line 103)
silence_watcher_interleaved ==
    /\ watcher_pc = "sleeping"
    /\ now = wake_at
    /\ IF elapsed >= SILENCE_TIMEOUT_SECONDS /\ ~reminder_played
       THEN /\ speech_queue' = say_reminder(speech_queue)
            /\ watcher_pc' = "awaiting"
            /\ last_speech_time' = now
            /\ fired_in_interval' = IF fired_in_interval < 2
                                    THEN fired_in_interval + 1 ELSE 2
            /\ fired_since_update' = TRUE
            /\ UNCHANGED <<reminder_played, wake_at>>
       ELSE /\ reminder_played' =
                  IF elapsed < SILENCE_TIMEOUT_SECONDS /\ reminder_played
                  THEN FALSE ELSE reminder_played
            /\ wake_at' = now + POLL_SECONDS
            /\ UNCHANGED <<speech_queue, watcher_pc, fired_in_interval,
                           fired_since_update, last_speech_time>>
    /\ UNCHANGED <<now, on_enter_pc, user_speaking, pending,
                   horizon, vocabulary, silence_start,
                   ever_fired, faults>>

\* one pass of the loop with the reminder requested but not awaited
silence_watcher_not_awaiting ==
    /\ watcher_pc = "sleeping"
    /\ now = wake_at
    /\ IF elapsed >= SILENCE_TIMEOUT_SECONDS /\ ~reminder_played
       THEN /\ speech_queue' = say_reminder(speech_queue)
            /\ reminder_played' = TRUE
            /\ wake_at' = now + POLL_SECONDS
            /\ fired_in_interval' = IF fired_in_interval < 2
                                    THEN fired_in_interval + 1 ELSE 2
            /\ fired_since_update' = TRUE
            /\ UNCHANGED watcher_pc
       ELSE /\ reminder_played' =
                  IF elapsed < SILENCE_TIMEOUT_SECONDS /\ reminder_played
                  THEN FALSE ELSE reminder_played
            /\ wake_at' = now + POLL_SECONDS
            /\ UNCHANGED <<speech_queue, watcher_pc, fired_in_interval,
                           fired_since_update>>
    /\ UNCHANGED <<now, last_speech_time, on_enter_pc, user_speaking, pending,
                   horizon, vocabulary, silence_start,
                   ever_fired, faults>>

silence_watcher ==
    /\ watcher_pc = "sleeping"
    /\ now = wake_at
    /\ IF elapsed >= SILENCE_TIMEOUT_SECONDS /\ ~reminder_played
       THEN /\ speech_queue' = say_reminder(speech_queue)
            /\ watcher_pc' = "awaiting"
            /\ fired_in_interval' = IF fired_in_interval < 2
                                    THEN fired_in_interval + 1 ELSE 2
            /\ fired_since_update' = TRUE
            /\ UNCHANGED <<reminder_played, wake_at>>
       ELSE /\ reminder_played' =
                  IF elapsed < SILENCE_TIMEOUT_SECONDS /\ reminder_played
                  THEN FALSE ELSE reminder_played
            /\ wake_at' = now + POLL_SECONDS
            /\ UNCHANGED <<speech_queue, watcher_pc, fired_in_interval,
                           fired_since_update>>
    /\ UNCHANGED <<now, last_speech_time, on_enter_pc, user_speaking, pending,
                   horizon, vocabulary, silence_start,
                   ever_fired, faults>>

(***************************************************************************)
(* Time.  A coroutine that is ready to run runs before the clock moves.    *)
(***************************************************************************)
Tick ==
    /\ now + POLL_SECONDS <= horizon
    /\ on_enter_pc # "start"
    /\ ~Settled
    /\ ~(watcher_pc = "sleeping" /\ wake_at = now)
    /\ now' = now + POLL_SECONDS
    /\ UNCHANGED <<last_speech_time, reminder_played, watcher_pc, wake_at,
                   on_enter_pc, user_speaking, pending, speech_queue, horizon,
                   vocabulary, silence_start,
                   fired_in_interval, ever_fired, fired_since_update, faults>>

Next ==
    \/ on_enter
    \/ SpeechStarted
    \/ SpeechEnded
    \/ TranscriptReady
    \/ EmitFrame
    \/ PlaybackCompleted
    \/ PlaybackFails
    \/ on_enter_resume
    \/ on_user_turn_completed_resume
    \/ silence_watcher_resume
    \/ silence_watcher
    \/ Tick

Spec == Init /\ [][Next]_vars

\* one run for every transcript the STT can deliver, over one silence timeout
InitEcho == \E m \in AllMessages : InitWith(SILENCE_TIMEOUT_SECONDS, {m})
SpecEcho == InitEcho /\ [][Next]_vars

\* fair scheduling of the event loop; the STT and the TTS make progress
InitFair == InitWith(SILENCE_TIMEOUT_SECONDS + POLL_SECONDS, FewMessages)
FairSpec ==
    /\ InitFair
    /\ [][Next]_vars
    /\ WF_vars(on_enter)
    /\ WF_vars(TranscriptReady)
    /\ WF_vars(EmitFrame)
    /\ WF_vars(PlaybackCompleted)
    /\ WF_vars(on_enter_resume)
    /\ WF_vars(on_user_turn_completed_resume)
    /\ WF_vars(silence_watcher_resume)
    /\ WF_vars(silence_watcher)

TypeOK ==
    /\ now \in 0..horizon
    /\ last_speech_time \in 0..now
    /\ reminder_played \in BOOLEAN
    /\ watcher_pc \in {"not_started", "sleeping", "awaiting", "dead"}
    /\ on_enter_pc \in {"start", "awaiting", "done", "raised"}
    /\ user_speaking \in BOOLEAN
    /\ Len(pending) <= MaxTurns
    /\ fired_in_interval \in 0..2
    /\ fired_since_update \in BOOLEAN

(***************************************************************************)
(* Steps, recognised from the pair of states                               *)
(***************************************************************************)
SpeechStartedStep == ~user_speaking /\ user_speaking'
SpeechEndedStep == user_speaking /\ ~user_speaking'
TurnStep == Len(pending') = Len(pending) - 1
CheckStep == watcher_pc = "sleeping" /\ (wake_at' # wake_at \/ watcher_pc' = "awaiting")
FrameStep ==
    /\ speech_queue # <<>>
    /\ Len(speech_queue') >= Len(speech_queue)
    /\ Head(speech_queue').frames_left = Head(speech_queue).frames_left - 1
ReminderStep ==
    CountKind(speech_queue', "reminder") > CountKind(speech_queue, "reminder")
ResponseStep ==
    CountKind(speech_queue', "response") > CountKind(speech_queue, "response")

(***************************************************************************)
(* C1  No-overlap: no audio frame is published while the user is speaking  *)
(* (state LISTENING), whoever requested the utterance.                     *)
(***************************************************************************)
C1_NoOverlap == [][FrameStep => SessionState # "LISTENING"]_vars

(***************************************************************************)
(* C2  Interruption: a speech START processed while an utterance of any    *)
(* kind is playing cancels it in the same step and makes the state         *)
(* LISTENING; a cancelled utterance publishes no further frame and stays   *)
(* cancelled until its caller's await returns.                             *)
(***************************************************************************)
C2_Interruption ==
    [][ /\ (SpeechStartedStep /\ Playing) =>
             /\ Head(speech_queue').status = "cancelled"
             /\ Head(speech_queue').kind = Head(speech_queue).kind
             /\ SessionState' = "LISTENING"
        /\ (Settled /\ Head(speech_queue).status = "cancelled") =>
             /\ ~FrameStep
             /\ \/ speech_queue' = Tail(speech_queue)
                \/ /\ speech_queue' # <<>>
                   /\ Head(speech_queue') = Head(speech_queue)
      ]_vars

C2_Witness ==
    /\ Settled
    /\ Head(speech_queue).kind = "reminder"
    /\ Head(speech_queue).status = "cancelled"
    /\ Head(speech_queue).frames_left < MaxFrames
    /\ user_speaking

(***************************************************************************)
(* C3  Watchdog single-fire: a reminder is requested only when the user is *)
(* silent and has been for at least the timeout, and not when one was      *)
(* already requested in the same silence interval.                         *)
(***************************************************************************)
C3_SingleFire ==
    [][ReminderStep =>
          /\ ~user_speaking
          /\ now - silence_start >= SILENCE_TIMEOUT_SECONDS
          /\ fired_in_interval = 0]_vars

(***************************************************************************)
(* C4  Watchdog rearm: once a reminder has been requested and the user has *)
(* spoken after it, every check of the watchdog that finds the user silent *)
(* for the timeout or longer, all transcripts delivered, leaves exactly    *)
(* one reminder requested in that silence interval.                        *)
(***************************************************************************)
C4_Rearm ==
    [][(/\ CheckStep
        /\ ever_fired
        /\ ~user_speaking
        /\ pending = <<>>
        /\ elapsed >= SILENCE_TIMEOUT_SECONDS) => fired_in_interval' = 1]_vars

(***************************************************************************)
(* C5  Echo correctness: the text of every response is "You said: "        *)
(* followed by the transcript without its leading and trailing whitespace, *)
(* or the fixed reprompt when the transcript is absent, empty or blank;    *)
(* every completed turn requests exactly one response and raises nothing,  *)
(* and nothing else requests a response.                                   *)
(***************************************************************************)
NonBlank(s) == {i \in 1..Len(s) : s[i] \notin Whitespace}
FirstNonBlank(s) == CHOOSE i \in NonBlank(s) : \A j \in NonBlank(s) : i <= j
LastNonBlank(s) == CHOOSE i \in NonBlank(s) : \A j \in NonBlank(s) : j <= i
Trimmed(s) == SubSeq(s, FirstNonBlank(s), LastNonBlank(s))
ExpectedResponse(m) ==
    IF m.is_none \/ NonBlank(m.text_content) = {}
    THEN REPROMPT_TEXT
    ELSE YOU_SAID \o Trimmed(m.text_content)

C5_Echo ==
    /\ [](\A i \in 1..Len(speech_queue) :
            speech_queue[i].kind = "response" =>
               speech_queue[i].text = ExpectedResponse(speech_queue[i].reply_to))
    /\ [][ /\ TurnStep =>
                /\ Len(speech_queue') = Len(speech_queue) + 1
                /\ speech_queue'[Len(speech_queue')].kind = "response"
                /\ faults' = faults
           /\ ResponseStep => TurnStep ]_vars

C5_Witness ==
    \E i \in 1..Len(speech_queue) :
        /\ speech_queue[i].kind = "response"
        /\ speech_queue[i].reply_to = Message(<<" ", "a", " ">>)
        /\ speech_queue[i].text = <<"You said: ", "a">>

(***************************************************************************)
(* C6  The ActivityClock is set to the current time at every speech START, *)
(* in whatever state it arrives.                                           *)
(***************************************************************************)
C6_ClockAtSpeechStart == [][SpeechStartedStep => last_speech_time' = now]_vars

(***************************************************************************)
(* C7  SynthesisError recovery: once the TTS engine has failed with a      *)
(* synthesis error in an utterance, the agent goes on with its silence     *)
(* watchdog running.                                                       *)
(***************************************************************************)
SynthesisFailed ==
    \E i \in 1..Len(faults) : faults[i].error = "SynthesisError"

C7_SynthesisRecovery == SynthesisFailed => watcher_pc \in {"sleeping", "awaiting"}

(***************************************************************************)
(* C8  THINKING tie-break: the transcript of an utterance that was         *)
(* followed by a new speech START before it was delivered gets no          *)
(* response.                                                               *)
(***************************************************************************)
C8_DiscardSuperseded == [][(TurnStep /\ Head(pending)) => ~ResponseStep]_vars

(***************************************************************************)
(* C10  Normal turn liveness: when the user has stopped speaking, the      *)
(* transcript leads to the response being played and the response being    *)
(* played leads back to IDLE, unless the user speaks again or the TTS      *)
(* fails; the end of speech leaves a transcript awaited.                   *)
(***************************************************************************)
Thinking == ~user_speaking /\ pending # <<>>
SpeakingResponse ==
    /\ ~user_speaking
    /\ Playing
    /\ Head(speech_queue).kind = "response"
    /\ Head(speech_queue).text = ExpectedResponse(Head(speech_queue).reply_to)
Excused ==
    \/ user_speaking
    \/ faults # <<>>
    \/ \E i \in 1..Len(speech_queue) : speech_queue[i].status = "failed"

C10_NormalTurn ==
    /\ [][SpeechEndedStep => Thinking']_vars
    /\ Thinking ~> (SpeakingResponse \/ Excused)
    /\ SpeakingResponse ~> (SessionState = "IDLE" \/ Excused)

C10_Witness ==
    /\ SessionState = "IDLE"
    /\ last_speech_time > 0
    /\ on_enter_pc = "done"
    /\ faults = <<>>

(***************************************************************************)
(* C11  Session start: the greeting is the first utterance, requested by   *)
(* on_enter and by no VAD edge; until its playback has finished or been    *)
(* interrupted the silence watchdog is not running and no reminder is      *)
(* requested; without speech from the user and without a TTS failure it    *)
(* is played to its last frame and the session ends in IDLE.               *)
(***************************************************************************)
GreetingStep ==
    CountKind(speech_queue', "greeting") > CountKind(speech_queue, "greeting")
WatcherStartStep == watcher_pc = "not_started" /\ watcher_pc' # "not_started"

C11_SessionStart ==
    /\ [](on_enter_pc = "start" =>
             speech_queue = <<>> /\ pending = <<>> /\ ~user_speaking)
    /\ [](on_enter_pc = "awaiting" =>
             speech_queue # <<>> /\ Head(speech_queue).kind = "greeting")
    /\ [](on_enter_pc \in {"start", "awaiting"} =>
             watcher_pc = "not_started" /\ CountKind(speech_queue, "reminder") = 0)
    /\ [][ /\ GreetingStep =>
                /\ on_enter_pc = "start"
                /\ ~SpeechStartedStep
                /\ ~SpeechEndedStep
           /\ WatcherStartStep =>
                /\ speech_queue # <<>>
                /\ Head(speech_queue).kind = "greeting"
                /\ \/ Head(speech_queue).status = "cancelled"
                   \/ /\ Head(speech_queue).status = "completed"
                      /\ Head(speech_queue).frames_left = 0 ]_vars
    /\ (on_enter_pc = "awaiting") ~>
          ((on_enter_pc = "done" /\ SessionState = "IDLE") \/ Excused)

C11_Witness ==
    /\ on_enter_pc = "done"
    /\ SessionState = "IDLE"
    /\ watcher_pc = "sleeping"
    /\ wake_at = POLL_SECONDS
    /\ last_speech_time = 0
    /\ faults = <<>>

(***************************************************************************)
(* C12  Watchdog check step: a check that finds elapsed >= timeout with    *)
(* ReminderState false requests exactly one reminder and ends, when it     *)
(* leaves the await of the playback other than by a provider error, with   *)
(* ReminderState true; a check that finds elapsed < timeout with           *)
(* ReminderState true sets it to false and                                 *)
(* requests nothing; any other check requests nothing and leaves           *)
(* ReminderState as it is.  No check writes the ActivityClock.             *)
(***************************************************************************)
WatcherAwaitEndStep == watcher_pc = "awaiting" /\ watcher_pc' # "awaiting"

C12_CheckStep ==
    [][ /\ (CheckStep \/ WatcherAwaitEndStep) => last_speech_time' = last_speech_time
        /\ (CheckStep /\ elapsed >= SILENCE_TIMEOUT_SECONDS /\ ~reminder_played) =>
              /\ CountKind(speech_queue', "reminder") =
                    CountKind(speech_queue, "reminder") + 1
              /\ Len(speech_queue') = Len(speech_queue) + 1
        /\ (WatcherAwaitEndStep /\ Head(speech_queue).error # "ProviderError") =>
              reminder_played'
        /\ (CheckStep /\ elapsed < SILENCE_TIMEOUT_SECONDS /\ reminder_played) =>
              /\ ~reminder_played'
              /\ speech_queue' = speech_queue
        /\ (CheckStep /\ (elapsed >= SILENCE_TIMEOUT_SECONDS <=> reminder_played)) =>
              /\ reminder_played' = reminder_played
              /\ speech_queue' = speech_queue
      ]_vars

(***************************************************************************)
(* C13  Fired-latency bound: a reminder is requested no earlier than the   *)
(* timeout after the last write of the ActivityClock; and when the         *)
(* session is idle, no say has failed, the watchdog is asleep between two  *)
(* checks and the clock, written by a completed turn, has not been written *)
(* for timeout + poll interval, a reminder has been requested since that   *)
(* write.                                                                  *)
(***************************************************************************)
C13_FiredLatency ==
    /\ [][ReminderStep => elapsed >= SILENCE_TIMEOUT_SECONDS]_vars
    /\ []((/\ SessionState = "IDLE"
           /\ faults = <<>>
           /\ watcher_pc = "sleeping"
           /\ wake_at > now
           /\ last_speech_time > 0
           /\ elapsed >= SILENCE_TIMEOUT_SECONDS + POLL_SECONDS) => fired_since_update)

(***************************************************************************)
(* C14  ReminderState changes only in a step of the silence watchdog (a    *)
(* check, or the return of its await); on_enter, on_user_turn_completed,   *)
(* the VAD edges and the playback leave it alone, and once true it stays   *)
(* true, whatever happens to the clock, until a check of the watchdog      *)
(* finds elapsed < timeout.                                                *)
(***************************************************************************)
C14_ReminderStateOwner ==
    [][ /\ reminder_played' # reminder_played =>
              (CheckStep \/ WatcherAwaitEndStep)
        /\ (TurnStep \/ SpeechStartedStep \/ SpeechEndedStep \/ FrameStep
               \/ GreetingStep \/ WatcherStartStep) =>
              reminder_played' = reminder_played
        /\ (reminder_played /\ ~reminder_played') =>
              (CheckStep /\ elapsed < SILENCE_TIMEOUT_SECONDS)
      ]_vars

C14_Witness ==
    /\ reminder_played
    /\ ~fired_since_update
    /\ last_speech_time > 0
    /\ elapsed < SILENCE_TIMEOUT_SECONDS
    /\ watcher_pc = "sleeping"

(***************************************************************************)
(* C15  A provider error (any failure of session.say other than a          *)
(* synthesis error) is surfaced to the session, in whichever coroutine it  *)
(* is raised, and the session does not go on with the watchdog task dead.  *)
(***************************************************************************)
C15_ErrorsSurfaced ==
    \A i \in 1..Len(faults) :
        faults[i].error = "ProviderError" =>
            /\ faults[i].surfaced
            /\ faults[i].task = "_silence_watcher" => watcher_pc # "dead"

(***************************************************************************)
(* C16  The watchdog's read of the ActivityClock, its comparison with the  *)
(* timeout and its request of the reminder are one step: a reminder is     *)
(* requested only by a check, in a step that is not a completed turn and   *)
(* does not write the clock, and the clock value on which it was decided   *)
(* (elapsed >= timeout, ReminderState false) is still the clock value when *)
(* the reminder has been requested; the watchdog is suspended only in its  *)
(* sleep or, with its one reminder in the queue, in its await.             *)
(***************************************************************************)
C16_AtomicCheck ==
    /\ [][ReminderStep =>
             /\ CheckStep
             /\ ~TurnStep
             /\ ~reminder_played
             /\ elapsed >= SILENCE_TIMEOUT_SECONDS
             /\ last_speech_time' = last_speech_time
             /\ elapsed' >= SILENCE_TIMEOUT_SECONDS
             /\ watcher_pc' = "awaiting"]_vars
    /\ [](watcher_pc = "awaiting" =>
             \E i \in 1..Len(speech_queue) : speech_queue[i].kind = "reminder")

C16_Witness ==
    /\ watcher_pc = "awaiting"
    /\ pending # <<>>
    /\ elapsed >= SILENCE_TIMEOUT_SECONDS
    /\ Playing
    /\ Head(speech_queue).kind = "reminder"
    /\ Head(speech_queue).frames_left = MaxFrames

(***************************************************************************)
(* C17  One watchdog, one reminder: the watchdog task is started once, by  *)
(* on_enter, and on_enter runs once; at most one reminder is in the speech *)
(* queue, and exactly when the watchdog is in its await; while it awaits   *)
(* it performs no check (no reminder requested, ReminderState and the      *)
(* wake-up time untouched); ReminderState becomes true only when the await *)
(* of a reminder that was played or cancelled returns.                     *)
(***************************************************************************)
C17_SingleWatcher ==
    /\ [](CountKind(speech_queue, "reminder") <= 1)
    /\ [](CountKind(speech_queue, "reminder") = 1 <=> watcher_pc = "awaiting")
    /\ [][ /\ WatcherStartStep => (on_enter_pc = "awaiting" /\ on_enter_pc' = "done")
           /\ watcher_pc # "not_started" => watcher_pc' # "not_started"
           /\ on_enter_pc # "start" => on_enter_pc' # "start"
           /\ (watcher_pc = "awaiting" /\ ~WatcherAwaitEndStep) =>
                 /\ ~ReminderStep
                 /\ reminder_played' = reminder_played
                 /\ wake_at' = wake_at
           /\ (~reminder_played /\ reminder_played') =>
                 /\ WatcherAwaitEndStep
                 /\ Head(speech_queue).kind = "reminder"
                 /\ Head(speech_queue).status \in {"completed", "cancelled"}
         ]_vars

C17_Witness ==
    /\ watcher_pc = "awaiting"
    /\ now >= wake_at + POLL_SECONDS
    /\ ~reminder_played
    /\ CountKind(speech_queue, "reminder") = 1

(***************************************************************************)
(* C18  The ActivityClock is written only by on_user_turn_completed: every *)
(* completed turn, whatever its transcript, sets it to the current time in *)
(* the step that queues the still unspoken response; no other step (the    *)
(* greeting, a check, a reminder requested or played, a frame, a VAD edge) *)
(* changes it, and it never decreases.                                     *)
(***************************************************************************)
C18_ClockWriter ==
    [][ /\ last_speech_time' # last_speech_time => TurnStep
        /\ TurnStep =>
              /\ last_speech_time' = now
              /\ ResponseStep
              /\ speech_queue'[Len(speech_queue')].frames_left = MaxFrames
        /\ (GreetingStep \/ ReminderStep \/ CheckStep \/ WatcherAwaitEndStep
               \/ WatcherStartStep \/ FrameStep) =>
              last_speech_time' = last_speech_time
        /\ last_speech_time' >= last_speech_time
      ]_vars

C18_Witness ==
    /\ now > 0
    /\ last_speech_time = now
    /\ reminder_played
    /\ \E i \in 1..Len(speech_queue) :
          /\ speech_queue[i].kind = "response"
          /\ speech_queue[i].reply_to = NoneMessage
          /\ speech_queue[i].frames_left = MaxFrames

====
